---- MODULE Spec2Model ----
(***************************************************************************)
(* A model of the iris repository's two entry points:                      *)
(*   - src/bin/lato_glyphs.rs: main and draw_glyph_to_canvas, the canvas   *)
(*     script generator that consumes shaped glyphs;                       *)
(*   - src/renderer/state.rs: State::input and the event loop of run.      *)
(* The font library the binary calls (shaper, glyph grammar, compound      *)
(* glyph resolution) is modelled from the design document.                 *)
(*                                                                         *)
(* Rust vectors are 0-based; the sequences here are 1-based, so the        *)
(* element at Rust index i is seq[i + 1].  Index variables keep the Rust   *)
(* values.                                                                 *)
(***************************************************************************)
EXTENDS Integers, Sequences, FiniteSets, TLC

VARIABLES
    program,                    \* which entry point this behaviour runs
    \* ---- lato_glyphs.rs: main
    args,                       \* std::env::args().skip(1)
    phrase,                     \* the joined phrase
    glyphs,                     \* shaper.shape(&phrase)
    gi,                         \* enumerate() index of the for loop
    render_js_code,             \* the script main accumulates
    mpc,                        \* position of main
    \* ---- lato_glyphs.rs: draw_glyph_to_canvas
    glyph,                      \* the glyph argument
    key,                        \* the key argument
    out,                        \* the script being built
    implicit_on_curve_points,
    start_index,
    end_index,
    i,
    k,                          \* position of the for loop over end_points_of_contours
    dpc,                        \* position of draw_glyph_to_canvas
    \* ---- state.rs: State and the locals of run
    mouse_state,                \* MouseState: pressed, position, start_drag
    draw_uniform,               \* DrawUniform: crosshair, circle centre and radius
    feature_uniform,            \* FeatureUniform: the feature switches, the window size
    shape_stack,                \* ShapeStack
    cursor_icon,                \* the window's cursor icon
    size,
    config,                     \* the surface configuration's width and height
    surface_configured,
    redraw_requested,           \* window.request_redraw() has been called
    exited,                     \* control_flow.exit() has been called
    panicked,                   \* the "Logic error occured" panic was raised
    last_press,                 \* observation: the latest left press since the last left release
    down_press,                 \* observation: the left press that found the button released
    last_event,                 \* observation: the event the closure handled last
    surface_configure,          \* observation: the size the last event passed to surface.configure
    \* ---- compound glyph resolution
    font,                       \* the glyph table: glyph id -> glyph
    root,                       \* the glyph id asked for
    rstack,                     \* the recursion: one frame per glyph being resolved
    rpc,                        \* position of the resolution
    rerror                      \* the decode error reported

glyphVars == <<args, phrase, glyphs, gi, render_js_code, mpc>>
drawVars == <<glyph, key, out, implicit_on_curve_points, start_index, end_index, i, k, dpc>>
runVars == <<mouse_state, draw_uniform, feature_uniform, shape_stack, cursor_icon, size, config,
             surface_configured, redraw_requested, exited, panicked, last_press, down_press,
             last_event, surface_configure>>
resolveVars == <<font, root, rstack, rpc, rerror>>
vars == <<program, glyphVars, drawVars, runVars, resolveVars>>

----
\* Bounds of the model.
MaxArgs == 2
MaxPts == 3
MaxContours == 2
MaxShapes == 2
MaxComponents == 2

SeqsUpTo(S, n) == UNION {[1..m -> S] : m \in 0..n}

\* Integer division as Rust computes it (truncation toward zero).
RustDiv(a, b) == IF a >= 0 THEN a \div b ELSE -((-a) \div b)

----
\* Glyph values (iris::font::grammar).

\* GlyphDescription::width / height: the extent of the bounding box.
width(d) == d.xMax - d.xMin
height(d) == d.yMax - d.yMin

NoDescription == [xMin |-> 0, yMin |-> 0, xMax |-> 0, yMax |-> 0]

\* The coordinate stored at Rust index j of the glyphs the model draws:
\* distinct for distinct indices, so a command's target names its index.
CoordOf(j) == <<3 * j - 3, 5 - 2 * j>>

BoundingBox(n) == [xMin |-> -3, yMin |-> 5 - 2 * n, xMax |-> 3 * n, yMax |-> 5]

\* GlyphData::Simple: flags[j + 1] is the on-curve bit of point j.
SimpleGlyph(id, eps, flags) ==
    [id |-> id, kind |-> "Simple", description |-> BoundingBox(Len(flags)),
     end_points_of_contours |-> eps,
     coordinates |-> [j \in 1..Len(flags) |-> CoordOf(j - 1)],
     flags |-> flags, components |-> <<>>]

CompoundGlyph(id, comps) ==
    [id |-> id, kind |-> "Compound", description |-> BoundingBox(1),
     end_points_of_contours |-> <<>>, coordinates |-> <<>>,
     flags |-> <<>>, components |-> comps]

EmptyGlyph(id) ==
    [id |-> id, kind |-> "Empty", description |-> NoDescription,
     end_points_of_contours |-> <<>>, coordinates |-> <<>>,
     flags |-> <<>>, components |-> <<>>]

NoGlyph == EmptyGlyph(0)

\* Glyph::is_simple
is_simple(g) == g.kind = "Simple"

\* SimpleGlyph::on_curve(i), i a Rust index inside the glyph.
on_curve(g, j) == g.flags[j + 1]

\* The midpoint of two points.
midpoint(p, q) == <<RustDiv(p[1] + q[1], 2), RustDiv(p[2] + q[2], 2)>>

\* SimpleGlyph::interpolate_with_prev(i): the midpoint of points i - 1 and i, an
\* error when either is not a point of the glyph.
interpolate_with_prev(g, j) ==
    IF j < 1 \/ j >= Len(g.coordinates)
    THEN [ok |-> FALSE, val |-> <<0, 0>>]
    ELSE [ok |-> TRUE, val |-> midpoint(g.coordinates[j], g.coordinates[j + 1])]

----
\* The font main loads, and the shaper.

\* The glyph table: .notdef, 'a' (two contours, curved), 'c' (compound), space.
FontGlyphs ==
    <<SimpleGlyph(0, <<3>>, <<TRUE, TRUE, TRUE, TRUE>>),
      SimpleGlyph(1, <<2, 4>>, <<TRUE, FALSE, FALSE, TRUE, TRUE>>),
      CompoundGlyph(2, <<1>>),
      EmptyGlyph(3)>>

Chars == {"a", "c", " ", "?"}

\* The font's cmap subtable: the scalars it maps, each with its glyph id.
CmapEntries ==
    <<[char |-> "a", glyph |-> 1], [char |-> "c", glyph |-> 2], [char |-> " ", glyph |-> 3]>>

RECURSIVE cmap_find(_, _)
\* The search of the subtable from entry n on: the glyph id of the first entry for
\* the scalar, glyph id 0 when the entries are exhausted.
cmap_find(c, n) ==
    IF n > Len(CmapEntries) THEN 0
    ELSE IF CmapEntries[n].char = c THEN CmapEntries[n].glyph
    ELSE cmap_find(c, n + 1)

\* cmap lookup: an unmapped scalar resolves to glyph id 0.
cmap(c) == cmap_find(c, 1)

\* Font::glyph(id)
FontGlyph(id) == FontGlyphs[id + 1]

\* A shaper that emits nothing for a character the cmap does not map.
ShapeCharMappedOnly(c) == IF cmap(c) = 0 THEN <<>> ELSE <<FontGlyph(cmap(c))>>

\* One step of the shaper: resolve the character's glyph id, decode the glyph, emit it.
ShapeChar(c) == <<FontGlyph(cmap(c))>>

RECURSIVE shape_from(_, _)
\* The shaper's pass over the characters from the n-th on, appending what each
\* step emits.
shape_from(s, n) == IF n > Len(s) THEN <<>> ELSE ShapeChar(s[n]) \o shape_from(s, n + 1)

\* TrueTypeFontShaper::shape
shape(s) == shape_from(s, 1)

----
\* Script commands.  A command is the formatted line's canvas call, the key of the
\* context it is issued on and the numbers formatted into it.
Cmd(op, ky, a) == [op |-> op, key |-> ky, args |-> a]

\* dom_new_canvas(i, width, height)
dom_new_canvas(n, w, h) ==
    <<Cmd("createElement", n, <<>>), Cmd("width", n, <<w>>), Cmd("height", n, <<h>>)>>

\* The lines draw_glyph_to_canvas starts with and the two it ends with.  The
\* scale factors 0.5 and -0.5 are kept in tenths (5, -5); the translation
\* (0, height - 300) is kept by its constant offset.
Prelude(ky) ==
    <<Cmd("translate", ky, <<0, 300>>), Cmd("scale", ky, <<5, -5>>), Cmd("beginPath", ky, <<>>)>>
Postlude(ky) == <<Cmd("lineWidth", ky, <<9>>), Cmd("stroke", ky, <<>>)>>

\* A front end that draws the (true, true) arm as the curve the commented-out lines
\* of the source describe.
SegmentCmdCurve(ky, prev_on_curve, start_on_curve, curr) ==
    IF prev_on_curve /\ start_on_curve
    THEN Cmd("quadraticCurveTo", ky, curr \o curr)
    ELSE Cmd("lineTo", ky, curr)

\* The match of the while loop: the command for the segment from point i - 1 to
\* point i.  Both arms emit the same lineTo.
SegmentCmd(ky, prev_on_curve, start_on_curve, curr) ==
    IF prev_on_curve /\ start_on_curve
    THEN Cmd("lineTo", ky, curr)
    ELSE Cmd("lineTo", ky, curr)

\* start_index = end_index + 1: the first index of the next contour.
NextStartSame(e) == e
NextStart(e) == e + 1

\* The arm of the match that pushes interpolate_with_prev(i).
PushesImplicit(prev_on_curve, start_on_curve) == prev_on_curve /\ start_on_curve

----
\* draw_glyph_to_canvas, one action per step of its control flow.

\* let GlyphData::Simple(..) = &glyph.data else { todo!() }; the three first lines.
draw_enter ==
    /\ dpc = "enter"
    /\ IF ~(glyph.kind = "Simple")
       THEN /\ dpc' = "panic_todo"
            /\ UNCHANGED <<out, implicit_on_curve_points, start_index, k>>
       ELSE /\ out' = Prelude(key)
            /\ implicit_on_curve_points' = <<>>
            /\ start_index' = 0
            /\ k' = 1
            /\ dpc' = "contour"
    /\ UNCHANGED <<program, runVars, resolveVars, glyphVars, glyph, key, end_index, i>>

\* The head of the for loop body: coordinates[start_index] and the moveTo.
contour_begin ==
    /\ dpc = "contour"
    /\ k <= Len(glyph.end_points_of_contours)
    /\ end_index' = glyph.end_points_of_contours[k]
    /\ IF start_index >= Len(glyph.coordinates)
       THEN /\ dpc' = "panic_index"
            /\ UNCHANGED <<out, i>>
       ELSE /\ out' = Append(out, Cmd("moveTo", key, glyph.coordinates[start_index + 1]))
            /\ i' = start_index + 1
            /\ dpc' = "points"
    /\ UNCHANGED <<program, runVars, resolveVars, glyphVars, glyph, key, implicit_on_curve_points, start_index, k>>

\* One iteration of the while loop.
point_step ==
    /\ dpc = "points"
    /\ i <= end_index
    /\ IF i >= Len(glyph.coordinates)
       THEN /\ dpc' = "panic_index"
            /\ UNCHANGED <<out, i, implicit_on_curve_points>>
       ELSE LET prev_on_curve == on_curve(glyph, i - 1)
                curr == glyph.coordinates[i + 1]
                start_on_curve == on_curve(glyph, i)
                mid == interpolate_with_prev(glyph, i)
            IN  IF PushesImplicit(prev_on_curve, start_on_curve) /\ ~mid.ok
                THEN /\ dpc' = "err"
                     /\ UNCHANGED <<out, i, implicit_on_curve_points>>
                ELSE /\ implicit_on_curve_points' =
                            IF PushesImplicit(prev_on_curve, start_on_curve)
                            THEN Append(implicit_on_curve_points, mid.val)
                            ELSE implicit_on_curve_points
                     /\ out' = Append(out, SegmentCmd(key, prev_on_curve, start_on_curve, curr))
                     /\ i' = i + 1
                     /\ dpc' = dpc
    /\ UNCHANGED <<program, runVars, resolveVars, glyphVars, glyph, key, start_index, end_index, k>>

\* A for loop body that leaves its contour open.
contour_end_open ==
    /\ dpc = "points"
    /\ ~(i <= end_index)
    /\ start_index' = NextStart(end_index)
    /\ k' = k + 1
    /\ dpc' = "contour"
    /\ UNCHANGED <<program, runVars, resolveVars, glyphVars, glyph, key, out, implicit_on_curve_points, end_index, i>>

\* The end of the for loop body: closePath, and the next contour's start.
contour_end ==
    /\ dpc = "points"
    /\ ~(i <= end_index)
    /\ out' = Append(out, Cmd("closePath", key, <<>>))
    /\ start_index' = NextStart(end_index)
    /\ k' = k + 1
    /\ dpc' = "contour"
    /\ UNCHANGED <<program, runVars, resolveVars, glyphVars, glyph, key, implicit_on_curve_points, end_index, i>>

\* After the for loop: lineWidth, stroke, Ok(out).
draw_return ==
    /\ dpc = "contour"
    /\ ~(k <= Len(glyph.end_points_of_contours))
    /\ out' = out \o Postlude(key)
    /\ dpc' = "ok"
    /\ UNCHANGED <<program, runVars, resolveVars, glyphVars, glyph, key, implicit_on_curve_points, start_index, end_index, i, k>>

draw_glyph_to_canvas == draw_enter \/ contour_begin \/ point_step \/ contour_end \/ draw_return

----
\* main of lato_glyphs.rs.

RECURSIVE join(_, _)
\* Vec<String>::join(sep)
join(ws, sep) ==
    IF ws = <<>> THEN <<>>
    ELSE IF Len(ws) = 1 THEN ws[1]
    ELSE ws[1] \o sep \o join(Tail(ws), sep)

\* A loop that skips nothing.
RendersAll(g) == TRUE

\* The glyphs of the phrase that main's loop renders.
Renders(g) == is_simple(g)

\* From the start of main to the head of the for loop.
main_shape ==
    /\ mpc = "start"
    /\ phrase' = join(args, <<" ">>)
    /\ glyphs' = shape(phrase')
    /\ render_js_code' = <<Cmd("contentDiv", 0, <<>>)>>
    /\ gi' = 0
    /\ mpc' = "loop"
    /\ UNCHANGED <<program, runVars, resolveVars, args, drawVars>>

\* if !glyph.is_simple() { continue; }
main_skip ==
    /\ mpc = "loop"
    /\ gi < Len(glyphs)
    /\ ~Renders(glyphs[gi + 1])
    /\ gi' = gi + 1
    /\ UNCHANGED <<program, runVars, resolveVars, args, phrase, glyphs, render_js_code, mpc, drawVars>>

\* The canvas lines of a simple glyph, and the call of draw_glyph_to_canvas(glyph, i).
main_render ==
    /\ mpc = "loop"
    /\ gi < Len(glyphs)
    /\ Renders(glyphs[gi + 1])
    /\ render_js_code' = render_js_code
            \o dom_new_canvas(gi, width(glyphs[gi + 1].description), height(glyphs[gi + 1].description))
            \o <<Cmd("getContext", gi, <<>>)>>
    /\ glyph' = glyphs[gi + 1]
    /\ key' = gi
    /\ dpc' = "enter"
    /\ mpc' = "drawing"
    /\ UNCHANGED <<program, runVars, resolveVars, args, phrase, glyphs, gi, out, implicit_on_curve_points,
                   start_index, end_index, i, k>>

\* The return of draw_glyph_to_canvas into main: `?`, the script, appendChild.
main_rendered ==
    /\ mpc = "drawing"
    /\ dpc \in {"ok", "err"}
    /\ IF dpc = "ok"
       THEN /\ render_js_code' = render_js_code \o out \o <<Cmd("appendChild", gi, <<>>)>>
            /\ gi' = gi + 1
            /\ mpc' = "loop"
       ELSE /\ mpc' = "failed"
            /\ UNCHANGED <<render_js_code, gi>>
    /\ dpc' = "idle"
    /\ UNCHANGED <<program, runVars, resolveVars, args, phrase, glyphs, glyph, key, out, implicit_on_curve_points,
                   start_index, end_index, i, k>>

\* After the loop: the files are written and main returns Ok.
main_write ==
    /\ mpc = "loop"
    /\ ~(gi < Len(glyphs))
    /\ mpc' = "done"
    /\ UNCHANGED <<program, runVars, resolveVars, args, phrase, glyphs, gi, render_js_code, drawVars>>

main == main_shape \/ main_skip \/ main_render \/ main_rendered \/ main_write

----
\* The renderer (src/renderer/state.rs).

None == <<>>
Some(v) == <<v>>

\* The window's size at creation (the dimensions of the image).
InitialSizes == {[width |-> 0, height |-> 0], [width |-> 2, height |-> 2]}

\* MouseState::default()
InitialMouseState == [pressed |-> FALSE, position |-> <<0, 0>>, start_drag |-> None]

\* DrawUniform::new()
InitialDrawUniform == [crosshair |-> FALSE, circle_center |-> <<0, 0>>, circle_radius |-> 0]

\* The feature switches reset_features restores.
DefaultFeatures ==
    [blur |-> FALSE, grayscale |-> FALSE, sharpen |-> FALSE, invert |-> FALSE,
     edge_detect |-> FALSE, flip_x |-> FALSE, flip_y |-> FALSE,
     blur_radius |-> 0, sharpen_factor |-> 0]

\* FeatureUniform::new(width, height, gamma)
InitialFeatureUniform(w, h) == [features |-> DefaultFeatures, width |-> w, height |-> h]

\* FeatureUniform::update_window_dimensions(width, height)
update_window_dimensions(f, w, h) == [f EXCEPT !.width = w, !.height = h]

RECURSIVE isqrt(_, _)
\* The largest r with r * r <= n, searched upward from r.
isqrt(n, r) == IF (r + 1) * (r + 1) > n THEN r ELSE isqrt(n, r + 1)

\* shape::compute_radius(center, edge): the distance of the two points.
compute_radius(center, edge) ==
    LET dx == edge[1] - center[1]
        dy == edge[2] - center[2]
    IN  isqrt(dx * dx + dy * dy, 0)

\* A circle whose centre is the cursor position at the release.
DragCircleAtEdge(start, edge) ==
    [x |-> edge[1], y |-> edge[2], radius |-> compute_radius(start, edge)]

\* Shape::Circle { x, y, radius } of a finished drag from start to edge.
DragCircle(start, edge) ==
    [x |-> start[1], y |-> start[2], radius |-> compute_radius(start, edge)]

\* The left press observed last: where the cursor was, and that it was handled in
\* crosshair mode.  A press handled outside crosshair mode starts no drag and is
\* recorded like no press.
NoPress == [some |-> FALSE, at |-> <<0, 0>>, crosshair |-> FALSE]
PressAt(pos, ch) == IF ch THEN [some |-> TRUE, at |-> pos, crosshair |-> TRUE] ELSE NoPress

\* The event loop delivers events until control_flow.exit() or a panic.
Running == program = "run" /\ ~exited /\ ~panicked

\* State::resize(new_size)
resize(new_size) ==
    IF new_size.width > 0 /\ new_size.height > 0
    THEN /\ size' = new_size
         /\ config' = new_size
         /\ surface_configure' = Some(new_size)
         /\ feature_uniform' = update_window_dimensions(feature_uniform, new_size.width,
                                                        new_size.height)
    ELSE /\ surface_configure' = None
         /\ UNCHANGED <<size, config, feature_uniform>>

\* State::input, WindowEvent::MouseInput arm (returns true).
input_MouseInput(state, button) ==
    IF button = "Left"
    THEN LET prev_state == mouse_state.pressed
             now == (state = "Pressed")
             set == [mouse_state EXCEPT !.pressed = now]
         IN  IF ~draw_uniform.crosshair
             THEN /\ mouse_state' = set
                  /\ UNCHANGED <<draw_uniform, shape_stack, panicked>>
             ELSE IF ~prev_state /\ now
             THEN /\ mouse_state' = [set EXCEPT !.start_drag = Some(set.position)]
                  /\ draw_uniform' = [draw_uniform EXCEPT !.circle_center = set.position]
                  /\ UNCHANGED <<shape_stack, panicked>>
             ELSE IF prev_state /\ ~now
             THEN IF set.start_drag = None
                  THEN /\ panicked' = TRUE
                       /\ mouse_state' = set
                       /\ UNCHANGED <<draw_uniform, shape_stack>>
                  ELSE /\ shape_stack' = Append(shape_stack,
                                                DragCircle(set.start_drag[1], set.position))
                       /\ mouse_state' = [set EXCEPT !.start_drag = None]
                       /\ draw_uniform' = [draw_uniform EXCEPT !.circle_radius = 0]
                       /\ UNCHANGED panicked
             ELSE /\ mouse_state' = set
                  /\ UNCHANGED <<draw_uniform, shape_stack, panicked>>
    ELSE UNCHANGED <<mouse_state, draw_uniform, shape_stack, panicked>>

\* State::input, WindowEvent::CursorMoved arm (returns true).
input_CursorMoved(pos) ==
    /\ draw_uniform' =
          IF mouse_state.start_drag # None
          THEN [draw_uniform EXCEPT !.circle_radius = compute_radius(mouse_state.start_drag[1], pos)]
          ELSE draw_uniform
    /\ mouse_state' = [mouse_state EXCEPT !.position = pos]

\* The key presses State::input consumes.
ConsumedKeys ==
    {"KeyA", "KeyC", "KeyB", "ArrowUp", "ArrowDown", "KeyG", "KeyS", "KeyI", "KeyE",
     "KeyX", "KeyY"}

\* The feature switches after a consumed key other than KeyA.
FeatureKey(f, keycode) ==
    CASE keycode = "KeyC" -> DefaultFeatures
      [] keycode = "KeyB" -> [f EXCEPT !.blur = ~f.blur]
      [] keycode = "ArrowUp" ->
            [f EXCEPT !.blur_radius = IF f.blur THEN @ + 1 ELSE @,
                      !.sharpen_factor = IF f.sharpen THEN @ + 1 ELSE @]
      [] keycode = "ArrowDown" ->
            [f EXCEPT !.blur_radius = IF f.blur THEN @ - 1 ELSE @,
                      !.sharpen_factor = IF f.sharpen THEN @ - 1 ELSE @]
      [] keycode = "KeyG" -> [f EXCEPT !.grayscale = ~f.grayscale]
      [] keycode = "KeyS" -> [f EXCEPT !.sharpen = ~f.sharpen]
      [] keycode = "KeyI" -> [f EXCEPT !.invert = ~f.invert]
      [] keycode = "KeyE" -> [f EXCEPT !.edge_detect = ~f.edge_detect]
      [] keycode = "KeyX" -> [f EXCEPT !.flip_x = ~f.flip_x]
      [] keycode = "KeyY" -> [f EXCEPT !.flip_y = ~f.flip_y]
      [] OTHER -> f

\* State::input, WindowEvent::KeyboardInput arm.
input_KeyboardInput(keycode, state) ==
    IF keycode = "KeyA" /\ state = "Pressed"
    THEN /\ draw_uniform' = [draw_uniform EXCEPT !.crosshair = ~draw_uniform.crosshair]
         /\ cursor_icon' = IF draw_uniform'.crosshair THEN "Crosshair" ELSE "Default"
         /\ UNCHANGED feature_uniform
    ELSE /\ feature_uniform' =
                IF state = "Pressed"
                THEN [feature_uniform EXCEPT !.features = FeatureKey(@, keycode)]
                ELSE feature_uniform
         /\ UNCHANGED <<draw_uniform, cursor_icon>>

\* A State::input that also consumes the Escape key press.
ConsumesKeyEscape(keycode, state) ==
    state = "Pressed" /\ keycode \in ConsumedKeys \cup {"Escape"}

\* What State::input returns for a keyboard event.
ConsumesKey(keycode, state) == state = "Pressed" /\ keycode \in ConsumedKeys

\* A State::input that also consumes RedrawRequested.
ConsumesEventRedraw(kind) == kind \in {"MouseInput", "CursorMoved", "RedrawRequested"}

\* What State::input returns for an event that is not a keyboard event: true for
\* the mouse arms, false for everything else.
ConsumesEvent(kind) == kind \in {"MouseInput", "CursorMoved"}

\* The record of a handled event: its kind, how render() ended ("NotCalled" when
\* render was not called) and whether window.request_redraw() was called.
Handled(kind, render, requested) == [kind |-> kind, render |-> render, requested |-> requested]
Other == Handled("Other", "NotCalled", FALSE)

\* A closure that reconfigures the surface on a timeout as well.
ReconfiguresAlsoTimeout(result) == result \in {"Lost", "Outdated", "Timeout"}

\* The arms of `match state.render()`.
Reconfigures(result) == result \in {"Lost", "Outdated"}
Exits(result) == result = "OutOfMemory"

----
\* The closure of event_loop.run, one action per window event.

\* A mouse button event.  The shape stack is capped: a release that would push a
\* circle on a full stack is not delivered.
MouseInput(state, button) ==
    /\ Running
    /\ UNCHANGED <<program, glyphVars, drawVars, resolveVars>>
    /\ (/\ button = "Left" /\ state = "Released" /\ draw_uniform.crosshair
        /\ mouse_state.pressed /\ mouse_state.start_drag # None)
       => Len(shape_stack) < MaxShapes
    /\ input_MouseInput(state, button)
    /\ last_press' =
          IF button # "Left" THEN last_press
          ELSE IF state = "Pressed" THEN PressAt(mouse_state.position, draw_uniform.crosshair)
          ELSE NoPress
    /\ down_press' =
          IF button # "Left" THEN down_press
          ELSE IF state = "Pressed"
               THEN (IF mouse_state.pressed THEN down_press
                     ELSE PressAt(mouse_state.position, draw_uniform.crosshair))
          ELSE NoPress
    /\ last_event' = Other /\ surface_configure' = None
    /\ UNCHANGED <<feature_uniform, cursor_icon, size, config, surface_configured,
                   redraw_requested, exited>>

\* A cursor movement.
CursorMoved(pos) ==
    /\ Running
    /\ UNCHANGED <<program, glyphVars, drawVars, resolveVars>>
    /\ input_CursorMoved(pos)
    /\ last_event' = Other /\ surface_configure' = None
    /\ UNCHANGED <<shape_stack, panicked, last_press, down_press, feature_uniform,
                   cursor_icon, size, config, surface_configured, redraw_requested, exited>>

\* A key event: consumed by State::input, or Escape pressed, which exits, or ignored.
KeyboardInput(keycode, state) ==
    /\ Running
    /\ UNCHANGED <<program, glyphVars, drawVars, resolveVars>>
    /\ input_KeyboardInput(keycode, state)
    /\ exited' = (~ConsumesKey(keycode, state) /\ keycode = "Escape" /\ state = "Pressed")
    /\ last_event' = IF keycode = "Escape" /\ state = "Pressed"
                     THEN Handled("EscapePressed", "NotCalled", FALSE) ELSE Other
    /\ surface_configure' = None
    /\ UNCHANGED <<mouse_state, shape_stack, panicked, last_press, down_press, size, config,
                   surface_configured, redraw_requested>>

\* WindowEvent::CloseRequested
CloseRequested ==
    /\ Running
    /\ UNCHANGED <<program, glyphVars, drawVars, resolveVars>>
    /\ exited' = ~ConsumesEvent("CloseRequested")
    /\ last_event' = Handled("CloseRequested", "NotCalled", FALSE)
    /\ surface_configure' = None
    /\ UNCHANGED <<mouse_state, draw_uniform, feature_uniform, shape_stack, panicked,
                   last_press, down_press, cursor_icon, size, config, surface_configured,
                   redraw_requested>>

\* WindowEvent::Resized(physical_size)
Resized(physical_size) ==
    /\ Running
    /\ UNCHANGED <<program, glyphVars, drawVars, resolveVars>>
    /\ IF ConsumesEvent("Resized")
       THEN /\ surface_configure' = None
            /\ UNCHANGED <<surface_configured, size, config, feature_uniform>>
       ELSE /\ surface_configured' = TRUE
            /\ resize(physical_size)
    /\ last_event' = Other
    /\ UNCHANGED <<mouse_state, draw_uniform, shape_stack, panicked, last_press, down_press,
                   cursor_icon, redraw_requested, exited>>

\* WindowEvent::RedrawRequested, render() ending as `result`.
RedrawRequested(result) ==
    /\ Running
    /\ UNCHANGED <<program, glyphVars, drawVars, resolveVars>>
    /\ IF ConsumesEvent("RedrawRequested")
       THEN /\ last_event' = Handled("RedrawRequested", "NotCalled", FALSE)
            /\ surface_configure' = None
            /\ UNCHANGED <<redraw_requested, size, config, feature_uniform, exited>>
       ELSE /\ redraw_requested' = TRUE
            /\ IF ~surface_configured
               THEN /\ last_event' = Handled("RedrawRequested", "NotCalled", TRUE)
                    /\ surface_configure' = None
                    /\ UNCHANGED <<size, config, feature_uniform, exited>>
               ELSE /\ last_event' = Handled("RedrawRequested", result, TRUE)
                    /\ IF Reconfigures(result)
                       THEN resize(size)
                       ELSE /\ surface_configure' = None
                            /\ UNCHANGED <<size, config, feature_uniform>>
                    /\ exited' = Exits(result)
    /\ UNCHANGED <<mouse_state, draw_uniform, shape_stack, panicked, last_press, down_press,
                   cursor_icon, surface_configured>>

\* The events the model delivers.
ElementStates == {"Pressed", "Released"}
Buttons == {"Left", "Right"}
Positions == {<<0, 0>>, <<3, 4>>}
KeyCodes == {"KeyA", "KeyB", "KeyC", "Escape", "KeyQ"}
Sizes == {[width |-> 0, height |-> 3], [width |-> 2, height |-> 2]}
RenderResults == {"Ok", "Lost", "Outdated", "OutOfMemory", "Timeout"}

\* State::new on a window whose inner size is `inner_size`, and the locals of run.
InitRunAt(inner_size) ==
    /\ mouse_state = InitialMouseState /\ draw_uniform = InitialDrawUniform
    /\ feature_uniform = InitialFeatureUniform(inner_size.width, inner_size.height)
    /\ shape_stack = <<>>
    /\ cursor_icon = "Default" /\ size = inner_size /\ config = inner_size
    /\ surface_configured = FALSE /\ redraw_requested = FALSE
    /\ exited = FALSE /\ panicked = FALSE
    /\ last_press = NoPress /\ down_press = NoPress
    /\ last_event = Other /\ surface_configure = None

\* The renderer's variables while another program runs.
InitRunIdle == InitRunAt([width |-> 0, height |-> 0])

----
\* Compound glyph resolution (the glyph outline decoder of the font library).

\* The maximum depth of recursive compound-glyph resolution.
MaxDepth == 8

\* A resolution that never finds a chain too deep.
TooDeepNever(depth) == FALSE

\* The recursion-depth check: resolving at `depth` exceeds the maximum.
TooDeep(depth) == depth > MaxDepth

\* The glyph ids of the fonts resolved, and one id past the last glyph.
ResolveIds == {0, 1}
InvalidId == Cardinality(ResolveIds)

\* The glyph tables resolved: each glyph simple, or compound of up to MaxComponents
\* components that reference any glyph id, its own and the invalid one included.
ResolveFonts ==
    LET comps == SeqsUpTo(ResolveIds \cup {InvalidId}, MaxComponents) \ {<<>>}
        choices(id) == {SimpleGlyph(id, <<0>>, <<TRUE>>)} \cup {CompoundGlyph(id, c) : c \in comps}
    IN  {f \in [ResolveIds -> UNION {choices(id) : id \in ResolveIds}] :
            \A id \in ResolveIds : f[id].id = id}

\* A frame of the recursion: the glyph being resolved and its next component
\* (1-based).  The depth of a frame is its position on the stack, the root's 0.
Frame(id) == [id |-> id, next |-> 1]

\* The call for the root glyph.
resolve_enter ==
    /\ rpc = "start"
    /\ IF root \notin ResolveIds
       THEN rpc' = "error" /\ rerror' = "InvalidGlyphIndex" /\ UNCHANGED rstack
       ELSE rpc' = "resolving" /\ rstack' = <<Frame(root)>> /\ UNCHANGED rerror
    /\ UNCHANGED <<program, glyphVars, drawVars, runVars, font, root>>

\* The next component of the glyph on top: a reference to the glyph itself, to a
\* glyph that does not exist or past the maximum depth is a decode error;
\* otherwise the referenced glyph is resolved one level deeper.
resolve_component ==
    /\ rpc = "resolving"
    /\ LET top == rstack[Len(rstack)]
           g == font[top.id]
       IN  /\ g.kind = "Compound"
           /\ top.next <= Len(g.components)
           /\ LET ref == g.components[top.next] IN
              IF ref = top.id
              THEN rpc' = "error" /\ rerror' = "SelfReference" /\ UNCHANGED rstack
              ELSE IF ref \notin ResolveIds
              THEN rpc' = "error" /\ rerror' = "InvalidGlyphIndex" /\ UNCHANGED rstack
              ELSE IF TooDeep(Len(rstack))
              THEN rpc' = "error" /\ rerror' = "DepthExceeded" /\ UNCHANGED rstack
              ELSE /\ rstack' = Append([rstack EXCEPT ![Len(rstack)].next = top.next + 1],
                                       Frame(ref))
                   /\ UNCHANGED <<rpc, rerror>>
    /\ UNCHANGED <<program, glyphVars, drawVars, runVars, font, root>>

\* The glyph on top is resolved (a simple glyph, or a compound glyph whose
\* components are all resolved): return to the referencing glyph, or finish.
resolve_return ==
    /\ rpc = "resolving"
    /\ LET top == rstack[Len(rstack)]
           g == font[top.id]
       IN  g.kind = "Compound" => top.next > Len(g.components)
    /\ rstack' = SubSeq(rstack, 1, Len(rstack) - 1)
    /\ rpc' = IF Len(rstack) = 1 THEN "ok" ELSE rpc
    /\ UNCHANGED <<program, glyphVars, drawVars, runVars, font, root, rerror>>

resolve == resolve_enter \/ resolve_component \/ resolve_return

InitResolveIdle ==
    /\ font = <<>> /\ root = 0 /\ rstack = <<>> /\ rpc = "idle" /\ rerror = "none"

----
\* Inputs.

\* The words of the command line.
Words == {<<>>, <<"a">>, <<"c">>, <<"?">>, <<"a", "c">>, <<"c", "?">>}

\* The glyphs draw_glyph_to_canvas is called on directly: every simple glyph of up to
\* MaxContours end points and MaxPts points (well formed or not), a compound glyph
\* and an empty one.
GlyphInputs ==
    {SimpleGlyph(7, eps, fl) : eps \in SeqsUpTo(0..MaxPts, MaxContours),
                               fl \in SeqsUpTo(BOOLEAN, MaxPts)}
    \cup {CompoundGlyph(8, <<7>>), EmptyGlyph(9)}

InitDrawIdle ==
    /\ glyph = NoGlyph /\ key = 0 /\ out = <<>> /\ implicit_on_curve_points = <<>>
    /\ start_index = 0 /\ end_index = 0 /\ i = 0 /\ k = 1 /\ dpc = "idle"

InitMainIdle ==
    /\ args = <<>> /\ phrase = <<>> /\ glyphs = <<>> /\ gi = 0
    /\ render_js_code = <<>> /\ mpc = "none"

InitMain ==
    /\ program = "main"
    /\ args \in SeqsUpTo(Words, MaxArgs)
    /\ phrase = <<>> /\ glyphs = <<>> /\ gi = 0 /\ render_js_code = <<>>
    /\ mpc = "start"
    /\ InitDrawIdle
    /\ InitRunIdle
    /\ InitResolveIdle

InitDraw ==
    /\ program = "draw"
    /\ InitMainIdle
    /\ InitRunIdle
    /\ InitResolveIdle
    /\ glyph \in GlyphInputs
    /\ key = 0
    /\ out = <<>> /\ implicit_on_curve_points = <<>>
    /\ start_index = 0 /\ end_index = 0 /\ i = 0 /\ k = 1
    /\ dpc = "enter"

\* The state after State::new: the window's inner size is whatever the window
\* system reports, zero included.
InitRun ==
    /\ program = "run"
    /\ InitMainIdle
    /\ InitDrawIdle
    /\ \E inner_size \in InitialSizes : InitRunAt(inner_size)
    /\ InitResolveIdle

\* A font and the glyph id whose outline is asked for.
InitResolve ==
    /\ program = "resolve"
    /\ InitMainIdle
    /\ InitDrawIdle
    /\ InitRunIdle
    /\ font \in ResolveFonts
    /\ root \in ResolveIds \cup {InvalidId}
    /\ rstack = <<>> /\ rpc = "start" /\ rerror = "none"

Init == InitMain \/ InitDraw \/ InitRun \/ InitResolve

Next == draw_enter \/ contour_begin \/ point_step \/ contour_end \/ draw_return
        \/ main_shape \/ main_skip \/ main_render \/ main_rendered \/ main_write
        \/ (\E st \in ElementStates, b \in Buttons : MouseInput(st, b))
        \/ (\E pos \in Positions : CursorMoved(pos))
        \/ (\E kc \in KeyCodes, st \in ElementStates : KeyboardInput(kc, st))
        \/ CloseRequested
        \/ (\E sz \in Sizes : Resized(sz))
        \/ (\E r \in RenderResults : RedrawRequested(r))
        \/ resolve_enter \/ resolve_component \/ resolve_return

Spec == Init /\ [][Next]_vars

\* The resolution alone: a sequential computation, which takes its next step
\* whenever it has one.
ResolveSpec == InitResolve /\ [][resolve]_vars /\ WF_vars(resolve)

----
\* Observations of a script.

IsMoveTo(c) == c.op = "moveTo"
IsLineTo(c) == c.op = "lineTo"
IsClosePath(c) == c.op = "closePath"
IsTarget(c) == c.op \in {"moveTo", "lineTo"}
IsPathCmd(c) == c.op \in {"moveTo", "lineTo", "closePath"}

Count(s, Test(_)) == Len(SelectSeq(s, Test))

\* The coordinates the moveTo and lineTo commands of a script go to, in order.
Targets(s) == LET t == SelectSeq(s, IsTarget) IN [n \in 1..Len(t) |-> t[n].args]

\* The moveTo, lineTo and closePath commands of a script, in order.
PathOps(s) == LET t == SelectSeq(s, IsPathCmd) IN [n \in 1..Len(t) |-> t[n].op]

IsPrefix(s, t) == Len(s) <= Len(t) /\ \A n \in 1..Len(s) : s[n] = t[n]

\* The Rust index of the first point of contour c (1-based c), as the end points give it.
ContourStart(g, c) == IF c = 1 THEN 0 ELSE g.end_points_of_contours[c - 1] + 1

\* Contour c holds no point: its end index does not exceed the previous one's.
EmptyContour(g, c) ==
    c > 1 /\ g.end_points_of_contours[c] <= g.end_points_of_contours[c - 1]

\* Every end index is the index of a point and the end indices do not decrease.
EndPointsInRange(g) ==
    LET eps == g.end_points_of_contours IN
    /\ \A c \in 1..Len(eps) : eps[c] < Len(g.coordinates)
    /\ \A c \in 2..Len(eps) : eps[c - 1] <= eps[c]

\* The invariant of SimpleGlyphData: strictly increasing end points, the last one the
\* index of the last point.
WellFormed(g) ==
    LET eps == g.end_points_of_contours IN
    /\ is_simple(g)
    /\ \A c \in 2..Len(eps) : eps[c - 1] < eps[c]
    /\ Len(g.coordinates) = IF eps = <<>> THEN 0 ELSE eps[Len(eps)] + 1

RECURSIVE ContourLines(_, _, _, _)
\* The straight-line commands of the contours eps of points coords from Rust index
\* start on: per contour a moveTo, a lineTo per further point, a closePath.
ContourLines(ky, eps, coords, start) ==
    IF eps = <<>> THEN <<>>
    ELSE LET e == Head(eps)
             lines == IF e > start
                      THEN [n \in 1..(e - start) |-> Cmd("lineTo", ky, coords[start + n + 1])]
                      ELSE <<>>
         IN  <<Cmd("moveTo", ky, coords[start + 1])>> \o lines
             \o <<Cmd("closePath", ky, <<>>)>>
             \o ContourLines(ky, Tail(eps), coords, e + 1)

\* The script of straight lines through the points of a glyph: a function of the
\* key, the end points and the coordinates, not of the on-curve flags.
LineScript(ky, eps, coords) == Prelude(ky) \o ContourLines(ky, eps, coords, 0) \o Postlude(ky)

\* The Rust indices i the while loop visits for a well-formed glyph: every point
\* that is not the first of its contour.
RECURSIVE ExpectedImplicit(_, _)
\* The implicit on-curve points of the pairs (n - 1, n), n from Rust index `from` on,
\* of one contour each: the midpoints of the pairs of two off-curve points.
ExpectedImplicit(g, n) ==
    IF n >= Len(g.coordinates) THEN <<>>
    ELSE LET first == \E c \in 1..Len(g.end_points_of_contours) : ContourStart(g, c) = n
             here == IF ~first /\ n >= 1 /\ ~on_curve(g, n - 1) /\ ~on_curve(g, n)
                     THEN <<midpoint(g.coordinates[n], g.coordinates[n + 1])>>
                     ELSE <<>>
         IN  here \o ExpectedImplicit(g, n + 1)

----
\* Properties.

C3_EmptyContourEmitsNothing ==
    LET eps == glyph.end_points_of_contours
        nonEmpty == Cardinality({c \in 1..Len(eps) : ~EmptyContour(glyph, c)})
    IN  (/\ program = "draw" /\ is_simple(glyph) /\ EndPointsInRange(glyph)
         /\ \E c \in 1..Len(eps) : EmptyContour(glyph, c))
        => /\ dpc # "panic_index"
           /\ (dpc = "ok" => /\ Count(out, IsMoveTo) = nonEmpty
                             /\ Count(out, IsClosePath) = nonEmpty)

\* C4 (as claimed): an implicit on-curve point is derived for a pair of consecutive
\* points of a contour exactly when both are off-curve, and it is their midpoint.
C4_ImplicitExactlyOffOff ==
    (program = "draw" /\ WellFormed(glyph) /\ dpc = "ok")
        => implicit_on_curve_points = ExpectedImplicit(glyph, 0)

\* C5: main skips every glyph that is not simple (no canvas line, no script line for
\* its index), renders every simple one, and calls draw_glyph_to_canvas on simple
\* glyphs only; called on a glyph that is not simple, draw_glyph_to_canvas aborts
\* without a script.
C5_NonSimpleIsPlaceholder ==
    /\ (program = "main" /\ mpc = "drawing") => (is_simple(glyph) /\ dpc # "panic_todo")
    /\ (program = "main" /\ mpc \in {"loop", "done"}) =>
          \A n \in 1..gi :
              IF is_simple(glyphs[n])
              THEN \A o \in {"createElement", "getContext", "beginPath", "stroke", "appendChild"} :
                      \E m \in 1..Len(render_js_code) :
                          render_js_code[m].op = o /\ render_js_code[m].key = n - 1
              ELSE \A m \in 2..Len(render_js_code) : render_js_code[m].key # n - 1
    /\ (program = "draw" /\ ~is_simple(glyph)) => (dpc \in {"enter", "panic_todo"} /\ out = <<>>)

\* C5 witness: main has finished a phrase holding a compound glyph, an empty glyph
\* and a simple glyph after them.
C5_Witness ==
    /\ program = "main" /\ mpc = "done"
    /\ \E a, b, c \in 1..Len(glyphs) :
          /\ a < c /\ b < c
          /\ glyphs[a].kind = "Compound" /\ glyphs[b].kind = "Empty" /\ is_simple(glyphs[c])

\* C6: draw_glyph_to_canvas emits straight lines only: never a quadraticCurveTo, and
\* the finished script is the line script of the end points and coordinates, one
\* lineTo per point that is not the first of its contour, whatever the on-curve flags.
C6_StraightLinesOnly ==
    /\ \A m \in 1..Len(out) :
          out[m].op \in {"translate", "scale", "beginPath", "moveTo", "lineTo",
                         "closePath", "lineWidth", "stroke"}
    /\ dpc = "ok" => out = LineScript(key, glyph.end_points_of_contours, glyph.coordinates)

\* C6 witness: a finished script of a glyph with an on-on pair and an off-off pair.
C6_Witness ==
    /\ dpc = "ok"
    /\ implicit_on_curve_points # <<>>
    /\ \E n \in 2..Len(glyph.flags) : ~glyph.flags[n - 1] /\ ~glyph.flags[n]
    /\ Count(out, IsLineTo) >= 2

\* C7: every contour is emitted as a closed path: a moveTo to its first point, its
\* lineTo commands, one closePath, all before the next contour's moveTo; a finished
\* script holds as many moveTo and as many closePath as the glyph has contours.
C7_ContoursClosed ==
    LET opened == Count(out, IsMoveTo)
        closed == Count(out, IsClosePath)
        eps == glyph.end_points_of_contours
        moves == SelectSeq(out, IsMoveTo)
    IN  /\ opened - closed \in {0, 1}
        /\ dpc \in {"contour", "ok"} => opened = closed
        /\ dpc = "points" => opened = closed + 1
        /\ (out # <<>> /\ out[Len(out)].op = "lineTo") => opened - closed = 1
        /\ dpc = "ok" =>
              /\ opened = Len(eps) /\ closed = Len(eps)
              /\ \A c \in 1..Len(eps) :
                    moves[c].args = glyph.coordinates[ContourStart(glyph, c) + 1]
              /\ PathOps(out) = PathOps(ContourLines(key, eps, glyph.coordinates, 0))

\* C7 witness: a finished script of two contours, the first of two points.
C7_Witness ==
    /\ dpc = "ok"
    /\ glyph.end_points_of_contours = <<1, 2>>
    /\ PathOps(out) = <<"moveTo", "lineTo", "closePath", "moveTo", "closePath">>

\* C10: for a well-formed simple glyph draw_glyph_to_canvas reads no coordinate past
\* the last and goes to every point exactly once, in index order: contour c covers
\* the indices from the previous end point + 1 to its own end point, and the lineTo
\* commands number len(coordinates) minus the number of contours.
C10_EveryPointOnce ==
    LET eps == glyph.end_points_of_contours
        tg == SelectSeq(out, IsTarget)
    IN  (WellFormed(glyph) /\ dpc \notin {"idle", "enter"}) =>
          /\ dpc \notin {"panic_index", "err"}
          /\ IsPrefix(Targets(out), glyph.coordinates)
          /\ \A n \in 1..Len(tg) :
                (tg[n].op = "moveTo") <=> (\E c \in 1..Len(eps) : ContourStart(glyph, c) = n - 1)
          /\ dpc = "ok" =>
                /\ Targets(out) = glyph.coordinates
                /\ Count(out, IsLineTo) = Len(glyph.coordinates) - Len(eps)

\* C10 witness: a finished script of a well-formed glyph of two contours and three points.
C10_Witness ==
    /\ dpc = "ok" /\ WellFormed(glyph)
    /\ Len(glyph.end_points_of_contours) = 2
    /\ Len(glyph.coordinates) = 3

\* The circle a drag from centre c to the cursor position pos leaves on the stack.
CircleOf(c, pos) == [x |-> c[1], y |-> c[2], radius |-> compute_radius(c, pos)]

\* A finished drag starting at the press p: one circle pushed, the drag start
\* cleared, the live radius 0, no panic.
DragCompleted(p) ==
    /\ ~panicked'
    /\ shape_stack' = Append(shape_stack, CircleOf(p.at, mouse_state.position))
    /\ mouse_state'.start_drag = None
    /\ draw_uniform'.circle_radius = 0

\* C8 (as claimed): in every sequence of events the "Logic error occured" panic of
\* State::input is unreachable.
C8_LogicErrorUnreachable == ~panicked

\* C9 (as claimed): a left press handled in crosshair mode followed by the next left
\* release handled in crosshair mode pushes exactly one circle centred at the cursor
\* position of that press, of radius compute_radius(centre, position at the release),
\* and leaves the drag start None and the live radius 0.  The releases on which
\* State::input panics (C8) are set aside: the claim is stated for the others only.
C9_AnyPressCompletesDrag ==
    [][(/\ draw_uniform.crosshair /\ last_press.some /\ last_press.crosshair
        /\ ~panicked' /\ MouseInput("Released", "Left"))
       => DragCompleted(last_press)]_vars

\* C9 (amended): a left press that finds the button released and is handled in
\* crosshair mode, followed by the next left release handled in crosshair mode,
\* pushes exactly one circle centred at the cursor position of that press, of radius
\* compute_radius(centre, position at the release), and leaves the drag start None
\* and the live radius 0.
C9_ButtonDownCompletesDrag ==
    [][(/\ draw_uniform.crosshair /\ down_press.some /\ down_press.crosshair
        /\ MouseInput("Released", "Left"))
       => DragCompleted(down_press)]_vars

\* C9 witness: a drag from (0, 0) to (3, 4) has left its circle of radius 5 on the
\* stack, the drag start cleared and the live radius 0.
C9_Witness ==
    /\ program = "run"
    /\ shape_stack # <<>>
    /\ shape_stack[Len(shape_stack)] = [x |-> 0, y |-> 0, radius |-> 5]
    /\ mouse_state = [pressed |-> FALSE, position |-> <<3, 4>>, start_drag |-> None]
    /\ draw_uniform.circle_radius = 0
    /\ down_press = NoPress

\* The glyphs a compound glyph of the font references, those that exist.
Succ(g) ==
    IF font[g].kind = "Compound"
    THEN {font[g].components[n] : n \in 1..Len(font[g].components)} \cap ResolveIds
    ELSE {}

RECURSIVE Closure(_, _)
\* The glyphs reached from the set S along at most n references.
Closure(S, n) == IF n = 0 THEN S ELSE Closure(S \cup UNION {Succ(g) : g \in S}, n - 1)

\* The resolution of root meets a component that references its own glyph, or a
\* reference cycle (a chain of references of any depth).
Hazard ==
    /\ root \in ResolveIds
    /\ \E g \in Closure({root}, Cardinality(ResolveIds)) :
          \/ g \in Succ(g)
          \/ g \in Closure(Succ(g), Cardinality(ResolveIds))

\* C2: resolving a compound glyph always terminates: the recursion never goes deeper
\* than the maximum depth, a self-reference or a reference cycle never resolves
\* successfully, and every resolution ends, in success or in a reported decode error.
C2_ResolutionTerminates ==
    /\ [](Len(rstack) <= MaxDepth + 1)
    /\ [](rpc = "ok" => ~Hazard)
    /\ <>(rpc \in {"ok", "error"})

\* C2 witness: a reference cycle followed to the maximum depth and reported.
C2_Witness ==
    /\ program = "resolve"
    /\ rpc = "error" /\ rerror = "DepthExceeded"
    /\ Len(rstack) = MaxDepth + 1
    /\ rstack[1].id = rstack[3].id

----
\* The event loop's error handling, redraw requests and exit.

RenderErrors == {"Lost", "Outdated", "OutOfMemory", "Timeout"}

NonZero(sz) == sz.width > 0 /\ sz.height > 0

C12_RedrawAlwaysRequested ==
    last_event.kind = "RedrawRequested" => (last_event.requested /\ redraw_requested)

\* A frame whose render timed out, and the loop still running with the next
\* frame requested.
C12_Witness ==
    /\ last_event.kind = "RedrawRequested" /\ last_event.render = "Timeout"
    /\ redraw_requested /\ Running

\* C13: State::input consumes neither CloseRequested nor an Escape key press,
\* so in every running state both events can be handled, and handling either
\* one exits the event loop.
C13_ExitAlwaysReachable ==
    /\ last_event.kind \in {"CloseRequested", "EscapePressed"} => exited
    /\ ~ConsumesEvent("CloseRequested") /\ ~ConsumesKey("Escape", "Pressed")
    /\ Running => /\ ENABLED CloseRequested
                  /\ ENABLED KeyboardInput("Escape", "Pressed")

\* Escape ended the loop in crosshair mode in the middle of a drag, with blur on
\* and a circle on the stack.
C13_Witness ==
    /\ last_event.kind = "EscapePressed" /\ exited
    /\ draw_uniform.crosshair /\ mouse_state.pressed /\ mouse_state.start_drag # None
    /\ feature_uniform.features.blur /\ shape_stack # <<>>

====
